---- MODULE Spec2Model ----
(***************************************************************************)
(* A model of the plist XML parser (src/lib/plist/parser.ts): the          *)
(* StringScanner driven tokenizer StreamParser.parse, the tree builder     *)
(* Listener and the to_ruby conversions of the PTag variants.              *)
(*                                                                         *)
(* Text is a sequence of one-character strings.  The regular expressions   *)
(* of the source are operators over such sequences that return the cursor  *)
(* position after the match, or NoMatch.  A position p means "p characters *)
(* consumed", so the next character is s[p + 1].                           *)
(***************************************************************************)
EXTENDS Integers, Sequences, FiniteSets, TLC

VARIABLES
    xml,        \* @scanner.string
    pos,        \* @scanner.pos
    encoding,   \* encoding the scanner string is interpreted under
    open,       \* Listener.open, bottom of the stack first
    result,     \* Listener.result
    nextId,     \* identity of the next constructed PTag object
    status,     \* "scanning", "returned" (parse_xml returned), "raised"
    error,      \* what was raised, "" when nothing
    ret,        \* value parse_xml returned
    events,     \* listener calls made by the scanner, in order
    branch,     \* branch of the if/elsif chain taken by the last iteration
    inComment,  \* TRUE from a consumed <!-- until a consumed -->
    conversions,\* calls of to_ruby made by Listener.tag_end (root conversions)
    assignments,\* assignments to Listener.result made by Listener.tag_end
    node,       \* ConvSpec: the receiver of to_ruby
    value       \* ConvSpec: what to_ruby returned

vars == <<xml, pos, encoding, open, result, nextId, status, error, ret,
          events, branch, inComment, conversions, assignments, node, value>>

-----------------------------------------------------------------------------
(* Bounds *)

\* Longest document: number of chunks concatenated.
MaxChunks == 3

\* Most children of the node converted in ConvSpec.
MaxChildren == 4

-----------------------------------------------------------------------------
(* Characters *)

NoMatch == -1

UpperCase == <<"A","B","C","D","E","F","G","H","I","J","K","L","M",
               "N","O","P","Q","R","S","T","U","V","W","X","Y","Z">>
LowerCase == <<"a","b","c","d","e","f","g","h","i","j","k","l","m",
               "n","o","p","q","r","s","t","u","v","w","x","y","z">>

UpperSet == {UpperCase[i] : i \in 1..Len(UpperCase)}

LowerTable ==
    [c \in UpperSet |-> LowerCase[CHOOSE i \in 1..Len(UpperCase) : UpperCase[i] = c]]

\* Case folding of the /i flag and of String#downcase.
Lower(c) == IF c \in UpperSet THEN LowerTable[c] ELSE c

LowerSeq(s) == [i \in 1..Len(s) |-> Lower(s[i])]

\* \s of the regular expressions.
Spaces == {" ", "\n", "\t", "\r"}
IsSpace(c) == c \in Spaces

\* s[p+1 .. p+Len(lit)] = lit
LitAt(s, p, lit) ==
    /\ p + Len(lit) <= Len(s)
    /\ \A i \in 1..Len(lit) : s[p + i] = lit[i]

\* The same, ignoring letter case (the /i flag).
LitAtI(s, p, lit) ==
    /\ p + Len(lit) <= Len(s)
    /\ \A i \in 1..Len(lit) : Lower(s[p + i]) = Lower(lit[i])

\* Least element of a non-empty set of integers.
Least(S) == CHOOSE q \in S : \A r \in S : q <= r

RECURSIVE FirstIn(_, _, _)
\* Least index q or later of a character of s that is in C, 0 when none is.
FirstIn(s, q, C) ==
    IF q > Len(s) THEN 0
    ELSE IF s[q] \in C THEN q
    ELSE FirstIn(s, q + 1, C)

RECURSIVE SkipIn(_, _, _)
\* The position after the longest run of characters of C starting at s[p + 1].
SkipIn(s, p, C) ==
    IF p < Len(s) /\ s[p + 1] \in C THEN SkipIn(s, p + 1, C) ELSE p

\* Number of whitespace characters starting at s[p + 1].
SpaceRun(s, p) == SkipIn(s, p, Spaces) - p

Rest(s, p) == SubSeq(s, p + 1, Len(s))

-----------------------------------------------------------------------------
(* Tag registry: PTag.mappings *)

\* Class names of the PTag subclasses, in definition order.
PTagClasses == << <<"P","L","i","s","t">>,
                  <<"P","D","i","c","t">>,
                  <<"P","K","e","y">>,
                  <<"P","S","t","r","i","n","g">>,
                  <<"P","A","r","r","a","y">>,
                  <<"P","I","n","t","e","g","e","r">>,
                  <<"P","T","r","u","e">>,
                  <<"P","F","a","l","s","e">>,
                  <<"P","R","e","a","l">>,
                  <<"P","D","a","t","e">>,
                  <<"P","D","a","t","a">> >>

\* PTag.inherited: the key a subclass is registered under.
MappingKey(className) ==
    LET key == LowerSeq(className)
    IN  IF key = <<"p","l","i","s","t">> THEN key
        ELSE IF Len(key) > 0 /\ key[1] = "p" THEN Tail(key)
        ELSE key

\* PTag.mappings.keys, in insertion order.
MappingKeys == [i \in 1..Len(PTagClasses) |-> MappingKey(PTagClasses[i])]

\* PTag.mappings[name] is defined.
IsMapped(name) == \E i \in 1..Len(MappingKeys) : MappingKeys[i] = name

-----------------------------------------------------------------------------
(* The patterns of StreamParser, as StringScanner#scan applies them: a      *)
(* match is anchored at the cursor.  Each operator is the cursor after the  *)
(* match, or NoMatch.                                                       *)

\* COMMENT_START = /\A<!--/
CommentStartEnd(s, p) ==
    IF LitAt(s, p, <<"<","!","-","-">>) THEN p + 4 ELSE NoMatch

\* COMMENT_END = /.*?-->/m : through the first --> at or after the cursor.
RECURSIVE CommentEndEnd(_, _)
CommentEndEnd(s, p) ==
    IF p + 3 > Len(s) THEN NoMatch
    ELSE IF LitAt(s, p, <<"-","-",">">>) THEN p + 3
    ELSE CommentEndEnd(s, p + 1)

\* Where group 1 of XMLDECL_PATTERN starts: after "<?xml" and the greedy \s+.
XmlDeclBodyStart(s, p) == p + 5 + SpaceRun(s, p + 5)

\* Index of the "?" that XMLDECL_PATTERN's \? matches (0 when there is none):
\* the first one after the lazy group.
XmlDeclMark(s, p) == FirstIn(s, XmlDeclBodyStart(s, p) + 1, {"?"})

\* Number of ">" characters starting at s[p + 1] (the greedy >*).
GtRun(s, p) == SkipIn(s, p, {">"}) - p

\* XMLDECL_PATTERN = /<\?xml\s+(.*?)\?>*/m
XmlDeclEnd(s, p) ==
    IF LitAt(s, p, <<"<","?","x","m","l">>) /\ SpaceRun(s, p + 5) >= 1
    THEN LET mark == XmlDeclMark(s, p)
         IN  IF mark = 0 THEN NoMatch ELSE mark + GtRun(s, mark)
    ELSE NoMatch

\* @scanner[1] after XMLDECL_PATTERN matched.
XmlDeclGroup(s, p) ==
    SubSeq(s, XmlDeclBodyStart(s, p) + 1, XmlDeclMark(s, p) - 1)

\* DOCTYPE_PATTERN = /\s*<!DOCTYPE\s+(.*?)(\[|>)/m
DoctypeEnd(s, p) ==
    LET a == p + SpaceRun(s, p)
        lit == <<"<","!","D","O","C","T","Y","P","E">>
        b == a + Len(lit)
    IN  IF LitAt(s, a, lit) /\ SpaceRun(s, b) >= 1
        THEN LET q == FirstIn(s, b + SpaceRun(s, b) + 1, {"[", ">"})
             IN  IF q = 0 THEN NoMatch ELSE q
        ELSE NoMatch

\* Index into MappingKeys of the first alternative of (plist|dict|...), from
\* the i-th on, that matches at s[p + 1] ignoring case; 0 when none does.
RECURSIVE TagNameFrom(_, _, _)
TagNameFrom(s, p, i) ==
    IF i > Len(MappingKeys) THEN 0
    ELSE IF LitAtI(s, p, MappingKeys[i]) THEN i
    ELSE TagNameFrom(s, p, i + 1)

\* The alternative of (plist|dict|...) that matches at s[p + 1]: alternatives
\* are tried in order.
TagNameAt(s, p) == TagNameFrom(s, p, 1)

\* Index of the first ">" after position p, 0 when there is none.
FirstGt(s, p) == FirstIn(s, p + 1, {">"})

\* start_tag = /<(#{plist_tags})([^>]*)>/i
StartTagEnd(s, p) ==
    IF ~LitAt(s, p, <<"<">>) THEN NoMatch
    ELSE LET k == TagNameAt(s, p + 1)
         IN  IF k = 0 THEN NoMatch
             ELSE LET gt == FirstGt(s, p + 1 + Len(MappingKeys[k]))
                  IN  IF gt = 0 THEN NoMatch ELSE gt

\* @scanner[1] after start_tag matched: the name as written in the document.
StartTagName(s, p) ==
    SubSeq(s, p + 2, p + 1 + Len(MappingKeys[TagNameAt(s, p + 1)]))

\* @scanner[2] after start_tag matched: the attribute part.
StartTagAttrs(s, p) ==
    SubSeq(s, p + 2 + Len(MappingKeys[TagNameAt(s, p + 1)]), StartTagEnd(s, p) - 1)

\* @scanner[2] =~ /\/$/ : a "/" at the end of the string or of a line.
SelfClosing(attrs) ==
    \E i \in 1..Len(attrs) :
        attrs[i] = "/" /\ (i = Len(attrs) \/ attrs[i + 1] = "\n")

\* TEXT = /([^<]+)/
TextEnd(s, p) ==
    LET lt == FirstIn(s, p + 1, {"<"})
        e == IF lt = 0 THEN Len(s) ELSE lt - 1
    IN  IF e > p THEN e ELSE NoMatch

\* end_tag = /<\/(#{plist_tags})[^>]*>/i
EndTagEnd(s, p) ==
    IF ~LitAt(s, p, <<"<","/">>) THEN NoMatch
    ELSE LET k == TagNameAt(s, p + 2)
         IN  IF k = 0 THEN NoMatch
             ELSE LET gt == FirstGt(s, p + 2 + Len(MappingKeys[k]))
                  IN  IF gt = 0 THEN NoMatch ELSE gt

\* @scanner[1] after end_tag matched.
EndTagName(s, p) ==
    SubSeq(s, p + 3, p + 2 + Len(MappingKeys[TagNameAt(s, p + 2)]))

-----------------------------------------------------------------------------
(* Ruby values.  Every value is a record of one shape, so that any two can  *)
(* be compared.                                                             *)

Val(t, s, n, bytes, items, e) ==
    [t |-> t, s |-> s, n |-> n, bytes |-> bytes, items |-> items, e |-> e]

Nil == Val("nil", <<>>, 0, <<>>, <<>>, "")
Str(s) == Val("string", s, 0, <<>>, <<>>, "")
Fixnum(n) == Val("integer", <<>>, n, <<>>, <<>>, "")
Float(n) == Val("float", <<>>, n, <<>>, <<>>, "")
Bool(b) == Val(IF b THEN "true" ELSE "false", <<>>, 0, <<>>, <<>>, "")
\* A DateTime, named by the text it was parsed from.
Date(s) == Val("datetime", s, 0, <<>>, <<>>, "")
\* A StringIO: an object with its own identity, its contents and its position.
StringIO(id, bytes, at) == Val("stringio", <<>>, id, bytes, <<at>>, "")
Arr(items) == Val("array", <<>>, 0, <<>>, items, "")
\* One entry of a Hash.
Pair(k, v) == Val("pair", <<>>, 0, <<>>, <<k, v>>, "")
\* A Hash: its entries in insertion order, keys pairwise different.
Hash(pairs) == Val("hash", <<>>, 0, <<>>, pairs, "")
\* Not a value: the call raised e.
Raised(e) == Val("raise", <<>>, 0, <<>>, <<>>, e)

IsRaised(v) == v.t = "raise"
IsNil(v) == v.t = "nil"

\* A store that leaves the entry of a key already present as it is.
HashStoreKeepsFirst(pairs, k, v) ==
    IF \E i \in 1..Len(pairs) : pairs[i].items[1] = k
    THEN pairs
    ELSE Append(pairs, Pair(k, v))

\* Hash#[]=: a key already present keeps its place and gets the new value.
HashStore(pairs, k, v) ==
    IF \E i \in 1..Len(pairs) : pairs[i].items[1] = k
    THEN [i \in 1..Len(pairs) |->
            IF pairs[i].items[1] = k THEN Pair(k, v) ELSE pairs[i]]
    ELSE Append(pairs, Pair(k, v))

-----------------------------------------------------------------------------
(* PTag objects.  text is nil until Listener.text assigns it: hasText says  *)
(* whether it is set.                                                       *)

NewTag(id, name) ==
    [id |-> id, tag |-> name, hasText |-> FALSE, text |-> <<>>, children |-> <<>>]

PLIST == <<"p","l","i","s","t">>
DICT == <<"d","i","c","t">>
KEY == <<"k","e","y">>
STRING_ == <<"s","t","r","i","n","g">>
ARRAY == <<"a","r","r","a","y">>
INTEGER == <<"i","n","t","e","g","e","r">>
TRUE_ == <<"t","r","u","e">>
FALSE_ == <<"f","a","l","s","e">>
REAL == <<"r","e","a","l">>
DATE == <<"d","a","t","e">>
DATA == <<"d","a","t","a">>

Digits == <<"0","1","2","3","4","5","6","7","8","9">>
DigitSet == {Digits[i] : i \in 1..Len(Digits)}
IsDigit(c) == c \in DigitSet
DigitVal(c) == (CHOOSE i \in 1..Len(Digits) : Digits[i] = c) - 1

RECURSIVE DecimalValue(_, _)
\* Value of the digits s[1..n].
DecimalValue(s, n) ==
    IF n = 0 THEN 0 ELSE DecimalValue(s, n - 1) * 10 + DigitVal(s[n])

\* String#to_i: leading whitespace, an optional sign, then the leading digits;
\* 0 when there are none.  (The texts of the model hold no "_".)
ToI(text) ==
    LET a == SpaceRun(text, 0)
        neg == a < Len(text) /\ text[a + 1] = "-"
        b == IF a < Len(text) /\ text[a + 1] \in {"-", "+"} THEN a + 1 ELSE a
        e == SkipIn(text, b, DigitSet)
        v == DecimalValue(SubSeq(text, b + 1, e), e - b)
    IN  IF neg THEN 0 - v ELSE v

\* CGI.unescapeHTML, for the named entities.  (The texts of the model hold no
\* "#", so no numeric entity.)
Entities == << <<<<"&","a","m","p",";">>, "&">>,
               <<<<"&","l","t",";">>, "<">>,
               <<<<"&","g","t",";">>, ">">>,
               <<<<"&","q","u","o","t",";">>, "\"">>,
               <<<<"&","a","p","o","s",";">>, "'">> >>

RECURSIVE Unescape(_, _)
\* The unescaped form of s from position p on.
Unescape(s, p) ==
    IF p >= Len(s) THEN <<>>
    ELSE LET I == {i \in 1..Len(Entities) : LitAt(s, p, Entities[i][1])}
         IN  IF I = {}
             THEN <<s[p + 1]>> \o Unescape(s, p + 1)
             ELSE <<Entities[Least(I)][2]>>
                      \o Unescape(s, p + Len(Entities[Least(I)][1]))

UnescapeHTML(s) == Unescape(s, 0)

\* Value of a character in the base64 alphabet, -1 for any other character.
B64Val(c) ==
    IF \E i \in 1..26 : UpperCase[i] = c
    THEN (CHOOSE i \in 1..26 : UpperCase[i] = c) - 1
    ELSE IF \E i \in 1..26 : LowerCase[i] = c
    THEN (CHOOSE i \in 1..26 : LowerCase[i] = c) + 25
    ELSE IF IsDigit(c) THEN DigitVal(c) + 52
    ELSE IF c = "+" THEN 62
    ELSE IF c = "/" THEN 63
    ELSE 0 - 1

\* text.gsub(/\s+/, '') and the characters decode64 skips.
Sextets(text) ==
    SelectSeq([i \in 1..Len(text) |-> B64Val(text[i])], LAMBDA v : v >= 0)

RECURSIVE Decode(_)
\* Base64.decode64 on the sextets v: three bytes per four sextets, and what
\* an unpadded tail of two or three sextets still holds.
Decode(v) ==
    IF Len(v) < 2 THEN <<>>
    ELSE IF Len(v) = 2 THEN <<v[1] * 4 + v[2] \div 16>>
    ELSE IF Len(v) = 3
    THEN <<v[1] * 4 + v[2] \div 16, (v[2] % 16) * 16 + v[3] \div 4>>
    ELSE <<v[1] * 4 + v[2] \div 16,
           (v[2] % 16) * 16 + v[3] \div 4,
           (v[3] % 4) * 64 + v[4]>> \o Decode(SubSeq(v, 5, Len(v)))

Decode64(text) == Decode(Sextets(text))

\* Marshal.load: the two version bytes 4, 8 and then one object; of the
\* objects, nil ("0"), true ("T") and false ("F") are modelled.  Anything else
\* raises.
MarshalLoad(bytes) ==
    IF Len(bytes) >= 3 /\ bytes[1] = 4 /\ bytes[2] = 8
    THEN CASE bytes[3] = 48 -> Nil
           [] bytes[3] = 84 -> Bool(TRUE)
           [] bytes[3] = 70 -> Bool(FALSE)
           [] OTHER -> Raised("ArgumentError")
    ELSE Raised("TypeError")

\* DateTime.parse: a text without any digit is no date.
DateTimeParse(text) ==
    IF \E i \in 1..Len(text) : IsDigit(text[i])
    THEN Date(text)
    ELSE Raised("ArgumentError")

-----------------------------------------------------------------------------
(* to_ruby of each PTag subclass.  A call that raises yields Raised(e),     *)
(* and a caller that gets it raises in turn.                                *)

RECURSIVE ToRuby(_)
RECURSIVE DictEach(_, _, _, _)
RECURSIVE ArrayCollect(_, _, _)
RECURSIVE ArrayCollectReversed(_, _, _)

\* A conversion that reads the first child without asking whether there is
\* one: nil.to_ruby raises.
PListToRubyUnguarded(nd) ==
    IF Len(nd.children) > 0 THEN ToRuby(nd.children[1]) ELSE Raised("NoMethodError")

\* PList#to_ruby
PListToRuby(nd) ==
    IF Len(nd.children) > 0 THEN ToRuby(nd.children[1]) ELSE Nil

\* The children.each block of PDict#to_ruby from child i on, with the local
\* variables dict and key.
DictEach(children, i, dict, key) ==
    IF i > Len(children) THEN Hash(dict)
    ELSE LET v == ToRuby(children[i])
         IN  IF IsRaised(v) THEN v
             ELSE IF IsNil(key) THEN DictEach(children, i + 1, dict, v)
             ELSE DictEach(children, i + 1, HashStore(dict, key, v), Nil)

\* PDict#to_ruby
PDictToRuby(nd) == DictEach(nd.children, 1, <<>>, Nil)

\* PKey#to_ruby
PKeyToRuby(nd) == Str(UnescapeHTML(IF nd.hasText THEN nd.text ELSE <<>>))

\* PString#to_ruby
PStringToRuby(nd) == Str(UnescapeHTML(IF nd.hasText THEN nd.text ELSE <<>>))

\* A collect that puts each converted child in front of the earlier ones.
ArrayCollectReversed(children, i, acc) ==
    IF i > Len(children) THEN Arr(acc)
    ELSE LET v == ToRuby(children[i])
         IN  IF IsRaised(v) THEN v
             ELSE ArrayCollectReversed(children, i + 1, <<v>> \o acc)

\* children.collect of PArray#to_ruby from child i on.
ArrayCollect(children, i, acc) ==
    IF i > Len(children) THEN Arr(acc)
    ELSE LET v == ToRuby(children[i])
         IN  IF IsRaised(v) THEN v
             ELSE ArrayCollect(children, i + 1, Append(acc, v))

\* PArray#to_ruby
PArrayToRuby(nd) == ArrayCollect(nd.children, 1, <<>>)

\* PInteger#to_ruby (nil.to_i is 0)
PIntegerToRuby(nd) == Fixnum(IF nd.hasText THEN ToI(nd.text) ELSE 0)

\* PTrue#to_ruby
PTrueToRuby(nd) == Bool(TRUE)

\* PFalse#to_ruby
PFalseToRuby(nd) == Bool(FALSE)

\* PReal#to_ruby (nil.to_f is 0.0).  The texts of the model hold no "." and
\* no exponent, so to_f reads the digits to_i reads.
PRealToRuby(nd) == Float(IF nd.hasText THEN ToI(nd.text) ELSE 0)

\* PDate#to_ruby (DateTime.parse(nil) raises TypeError)
PDateToRuby(nd) ==
    IF nd.hasText THEN DateTimeParse(nd.text) ELSE Raised("TypeError")

\* A conversion without the rescue: what Marshal.load raises is raised.
PDataToRubyNoRescue(nd) ==
    IF nd.hasText THEN MarshalLoad(Decode64(nd.text)) ELSE Raised("TypeError")

\* PData#to_ruby: data stays nil when text is nil, Marshal.load(nil) raises,
\* and io.write(nil) writes nothing.
PDataToRuby(nd) ==
    LET data == IF nd.hasText THEN Decode64(nd.text) ELSE <<>>
        loaded == IF nd.hasText THEN MarshalLoad(data) ELSE Raised("TypeError")
    IN  IF IsRaised(loaded) THEN StringIO(nd.id, data, 0) ELSE loaded

\* Dispatch on the class of the receiver.
ToRuby(nd) ==
    CASE nd.tag = PLIST -> PListToRuby(nd)
      [] nd.tag = DICT -> PDictToRuby(nd)
      [] nd.tag = KEY -> PKeyToRuby(nd)
      [] nd.tag = STRING_ -> PStringToRuby(nd)
      [] nd.tag = ARRAY -> PArrayToRuby(nd)
      [] nd.tag = INTEGER -> PIntegerToRuby(nd)
      [] nd.tag = TRUE_ -> PTrueToRuby(nd)
      [] nd.tag = FALSE_ -> PFalseToRuby(nd)
      [] nd.tag = REAL -> PRealToRuby(nd)
      [] nd.tag = DATE -> PDateToRuby(nd)
      [] nd.tag = DATA -> PDataToRuby(nd)

-----------------------------------------------------------------------------
(* Listener.  Its handlers are operators on a record l of its fields, with  *)
(* l.error set when the handler raised.                                     *)

\* Listener.tag_start: PTag.mappings[name] is nil for a name that is no key,
\* and constructing from nil raises.
ListenerTagStart(l, name) ==
    IF IsMapped(name)
    THEN [l EXCEPT !.open = Append(@, NewTag(l.nextId, name)),
                   !.nextId = @ + 1]
    ELSE [l EXCEPT !.error = "NoMethodError"]

\* A text handler without the test for an empty stack: open.last is nil then
\* and assigning its text raises.
ListenerTextUnguarded(l, contents) ==
    IF Len(l.open) > 0
    THEN [l EXCEPT !.open[Len(l.open)].text = contents,
                   !.open[Len(l.open)].hasText = TRUE]
    ELSE [l EXCEPT !.error = "NoMethodError"]

\* Listener.text
ListenerText(l, contents) ==
    IF Len(l.open) > 0
    THEN [l EXCEPT !.open[Len(l.open)].text = contents,
                   !.open[Len(l.open)].hasText = TRUE]
    ELSE l

\* A tag_end that raises when the name is not that of the node it pops.
ListenerTagEndChecksName(l, name) ==
    IF Len(l.open) = 0 THEN [l EXCEPT !.error = "NoMethodError"]
    ELSE LET last == l.open[Len(l.open)]
             popped == SubSeq(l.open, 1, Len(l.open) - 1)
         IN  IF last.tag # name THEN [l EXCEPT !.error = "MismatchedTag"]
             ELSE IF Len(popped) = 0
             THEN LET v == ToRuby(last)
                  IN  IF IsRaised(v)
                      THEN [l EXCEPT !.open = popped,
                                     !.conversions = @ + 1,
                                     !.error = v.e]
                      ELSE [l EXCEPT !.open = popped,
                                     !.conversions = @ + 1,
                                     !.assignments = @ + 1,
                                     !.result = v]
             ELSE [l EXCEPT !.open =
                      [popped EXCEPT ![Len(popped)].children = Append(@, last)]]

\* A tag_end that makes the top a child of the node below it and leaves it on
\* the stack.
ListenerTagEndKeepsTop(l, name) ==
    IF Len(l.open) = 0 THEN [l EXCEPT !.error = "NoMethodError"]
    ELSE LET last == l.open[Len(l.open)]
             popped == SubSeq(l.open, 1, Len(l.open) - 1)
         IN  IF Len(popped) = 0
             THEN LET v == ToRuby(last)
                  IN  IF IsRaised(v)
                      THEN [l EXCEPT !.open = popped,
                                     !.conversions = @ + 1,
                                     !.error = v.e]
                      ELSE [l EXCEPT !.open = popped,
                                     !.conversions = @ + 1,
                                     !.assignments = @ + 1,
                                     !.result = v]
             ELSE [l EXCEPT !.open[Len(popped)].children = Append(@, last)]

\* A tag_end that takes a stray end tag as the end of an empty document and
\* stores nil as the result.
ListenerTagEndStoresNil(l, name) ==
    IF Len(l.open) = 0
    THEN [l EXCEPT !.result = Nil, !.assignments = @ + 1]
    ELSE LET last == l.open[Len(l.open)]
             popped == SubSeq(l.open, 1, Len(l.open) - 1)
         IN  IF Len(popped) = 0
             THEN LET v == ToRuby(last)
                  IN  IF IsRaised(v)
                      THEN [l EXCEPT !.open = popped,
                                     !.conversions = @ + 1,
                                     !.error = v.e]
                      ELSE [l EXCEPT !.open = popped,
                                     !.conversions = @ + 1,
                                     !.assignments = @ + 1,
                                     !.result = v]
             ELSE [l EXCEPT !.open =
                      [popped EXCEPT ![Len(popped)].children = Append(@, last)]]

\* Listener.tag_end: on an empty stack pop returns nil and nil.to_ruby raises.
ListenerTagEnd(l, name) ==
    IF Len(l.open) = 0 THEN [l EXCEPT !.error = "NoMethodError"]
    ELSE LET last == l.open[Len(l.open)]
             popped == SubSeq(l.open, 1, Len(l.open) - 1)
         IN  IF Len(popped) = 0
             THEN LET v == ToRuby(last)
                  IN  IF IsRaised(v)
                      THEN [l EXCEPT !.open = popped,
                                     !.conversions = @ + 1,
                                     !.error = v.e]
                      ELSE [l EXCEPT !.open = popped,
                                     !.conversions = @ + 1,
                                     !.assignments = @ + 1,
                                     !.result = v]
             ELSE [l EXCEPT !.open =
                      [popped EXCEPT ![Len(popped)].children = Append(@, last)]]

-----------------------------------------------------------------------------
(* StreamParser *)

\* Encoding.find: the platform's registry of encoding names, compared without
\* regard to case; an unknown name raises ArgumentError.
KnownEncodings == {<<"u","t","f","-","8">>, <<"a","s","c","i","i">>}

EncodingAttr == <<"e","n","c","o","d","i","n","g","=">>

\* Index of the quote closing the one at index o of decl (0 when none): the
\* first same quote that whitespace or the end follows, on the same line.
ClosingQuote(decl, o) ==
    LET I == {q \in (o + 1)..Len(decl) :
                /\ decl[q] = decl[o]
                /\ q = Len(decl) \/ IsSpace(decl[q + 1])
                /\ \A r \in (o + 1)..(q - 1) : decl[r] # "\n"}
    IN  IF I = {} THEN 0 ELSE Least(I)

\* Where /(?:\A|\s)encoding=(?:"(.*?)"|'(.*?)')(?:\s|\Z)/ matches in decl:
\* the positions j at which "encoding=" starts.
EncodingMatches(decl) ==
    {j \in 0..Len(decl) :
        /\ j = 0 \/ IsSpace(decl[j])
        /\ LitAt(decl, j, EncodingAttr)
        /\ j + 10 <= Len(decl)
        /\ decl[j + 10] \in {"\"", "'"}
        /\ ClosingQuote(decl, j + 10) # 0}

\* parse_encoding_from_xml_declaration: [kind |-> "nil"] for no encoding,
\* "found" with the name, or "raise".  Only group 1, the double-quoted name,
\* is read: after a single-quoted name it is nil and Encoding.find(nil) raises
\* a TypeError, which the rescue of ArgumentError does not catch.
ParseEncoding(decl) ==
    IF EncodingMatches(decl) = {} THEN [kind |-> "nil", name |-> <<>>]
    ELSE LET j == Least(EncodingMatches(decl))
             name == SubSeq(decl, j + 11, ClosingQuote(decl, j + 10) - 1)
         IN  IF decl[j + 10] = "'" THEN [kind |-> "raise", name |-> <<>>]
             ELSE IF LowerSeq(name) \in KnownEncodings
             THEN [kind |-> "found", name |-> LowerSeq(name)]
             ELSE [kind |-> "nil", name |-> <<>>]

\* The chain with the text branch moved ahead of the doctype branch.
BranchTextBeforeDoctype(s, p) ==
    IF CommentStartEnd(s, p) # NoMatch THEN "comment"
    ELSE IF XmlDeclEnd(s, p) # NoMatch THEN "xmldecl"
    ELSE IF StartTagEnd(s, p) # NoMatch THEN "start_tag"
    ELSE IF TextEnd(s, p) # NoMatch THEN "text"
    ELSE IF DoctypeEnd(s, p) # NoMatch THEN "doctype"
    ELSE IF EndTagEnd(s, p) # NoMatch THEN "end_tag"
    ELSE "raise"

\* The branch of the if/elsif chain of the loop body taken at cursor p.
Branch(s, p) ==
    IF CommentStartEnd(s, p) # NoMatch THEN "comment"
    ELSE IF XmlDeclEnd(s, p) # NoMatch THEN "xmldecl"
    ELSE IF DoctypeEnd(s, p) # NoMatch THEN "doctype"
    ELSE IF StartTagEnd(s, p) # NoMatch THEN "start_tag"
    ELSE IF TextEnd(s, p) # NoMatch THEN "text"
    ELSE IF EndTagEnd(s, p) # NoMatch THEN "end_tag"
    ELSE "raise"

\* The listener as the scanner sees it.
TheListener ==
    [open |-> open, result |-> result, nextId |-> nextId,
     conversions |-> conversions, assignments |-> assignments, error |-> ""]

\* The listener's fields after a handler returned or raised l.
ListenerBecomes(l) ==
    /\ open' = l.open
    /\ result' = l.result
    /\ nextId' = l.nextId
    /\ conversions' = l.conversions
    /\ assignments' = l.assignments
    /\ error' = l.error
    /\ status' = IF l.error = "" THEN status ELSE "raised"

ListenerUnchanged == UNCHANGED <<open, result, nextId, conversions, assignments>>

Event(kind, arg) == [ev |-> kind, arg |-> arg]

\* until @scanner.eos?
Scanning == status = "scanning" /\ pos < Len(xml)

\* if @scanner.scan(COMMENT_START) then @scanner.scan(COMMENT_END)
ScanComment ==
    /\ Scanning
    /\ Branch(xml, pos) = "comment"
    /\ LET e == CommentEndEnd(xml, CommentStartEnd(xml, pos))
       IN  /\ pos' = IF e = NoMatch THEN CommentStartEnd(xml, pos) ELSE e
           /\ inComment' = (e = NoMatch)
    /\ branch' = "comment"
    /\ ListenerUnchanged
    /\ UNCHANGED <<xml, encoding, status, error, ret, events, node, value>>

\* A reinterpretation that takes the whole text again instead of the rest.
ScanXmlDeclRescans ==
    /\ Scanning
    /\ Branch(xml, pos) = "xmldecl"
    /\ LET e == XmlDeclEnd(xml, pos)
           enc == ParseEncoding(XmlDeclGroup(xml, pos))
       IN  IF enc.kind = "raise"
           THEN /\ pos' = e
                /\ status' = "raised"
                /\ error' = "TypeError"
                /\ UNCHANGED <<xml, encoding>>
           ELSE IF enc.kind = "nil"
           THEN /\ pos' = e
                /\ UNCHANGED <<xml, encoding, status, error>>
           ELSE /\ xml' = xml
                /\ pos' = 0
                /\ encoding' = enc.name
                /\ UNCHANGED <<status, error>>
    /\ branch' = "xmldecl"
    /\ ListenerUnchanged
    /\ UNCHANGED <<ret, events, inComment, node, value>>

\* elsif @scanner.scan(XMLDECL_PATTERN)
ScanXmlDecl ==
    /\ Scanning
    /\ Branch(xml, pos) = "xmldecl"
    /\ LET e == XmlDeclEnd(xml, pos)
           enc == ParseEncoding(XmlDeclGroup(xml, pos))
       IN  IF enc.kind = "raise"
           THEN /\ pos' = e
                /\ status' = "raised"
                /\ error' = "TypeError"
                /\ UNCHANGED <<xml, encoding>>
           ELSE IF enc.kind = "nil"
           THEN /\ pos' = e
                /\ UNCHANGED <<xml, encoding, status, error>>
           ELSE /\ xml' = Rest(xml, e)
                /\ pos' = 0
                /\ encoding' = enc.name
                /\ UNCHANGED <<status, error>>
    /\ branch' = "xmldecl"
    /\ ListenerUnchanged
    /\ UNCHANGED <<ret, events, inComment, node, value>>

\* elsif @scanner.scan(DOCTYPE_PATTERN)
ScanDoctype ==
    /\ Scanning
    /\ Branch(xml, pos) = "doctype"
    /\ pos' = DoctypeEnd(xml, pos)
    /\ branch' = "doctype"
    /\ ListenerUnchanged
    /\ UNCHANGED <<xml, encoding, status, error, ret, events, inComment, node, value>>

\* elsif @scanner.scan(start_tag)
ScanStartTag ==
    /\ Scanning
    /\ Branch(xml, pos) = "start_tag"
    /\ pos' = StartTagEnd(xml, pos)
    /\ LET name == StartTagName(xml, pos)
           started == ListenerTagStart(TheListener, name)
           closes == started.error = "" /\ SelfClosing(StartTagAttrs(xml, pos))
       IN  /\ ListenerBecomes(IF closes THEN ListenerTagEnd(started, name)
                              ELSE started)
           /\ events' = events \o <<Event("tag_start", name)>>
                            \o (IF closes THEN <<Event("tag_end", name)>> ELSE <<>>)
    /\ branch' = "start_tag"
    /\ UNCHANGED <<xml, encoding, ret, inComment, node, value>>

\* elsif @scanner.scan(TEXT)
ScanText ==
    /\ Scanning
    /\ Branch(xml, pos) = "text"
    /\ pos' = TextEnd(xml, pos)
    /\ LET contents == SubSeq(xml, pos + 1, TextEnd(xml, pos))
       IN  /\ ListenerBecomes(ListenerText(TheListener, contents))
           /\ events' = Append(events, Event("text", contents))
    /\ branch' = "text"
    /\ UNCHANGED <<xml, encoding, ret, inComment, node, value>>

\* elsif @scanner.scan(end_tag)
ScanEndTag ==
    /\ Scanning
    /\ Branch(xml, pos) = "end_tag"
    /\ pos' = EndTagEnd(xml, pos)
    /\ LET name == EndTagName(xml, pos)
       IN  /\ ListenerBecomes(ListenerTagEnd(TheListener, name))
           /\ events' = Append(events, Event("tag_end", name))
    /\ branch' = "end_tag"
    /\ UNCHANGED <<xml, encoding, ret, inComment, node, value>>

\* An else branch that skips the character it cannot classify and goes on.
ScanRaiseSkips ==
    /\ Scanning
    /\ Branch(xml, pos) = "raise"
    /\ pos' = pos + 1
    /\ branch' = "raise"
    /\ ListenerUnchanged
    /\ UNCHANGED <<xml, encoding, status, error, ret, events, inComment, node, value>>

\* else raise "Unimplemented element"
ScanRaise ==
    /\ Scanning
    /\ Branch(xml, pos) = "raise"
    /\ status' = "raised"
    /\ error' = "Unimplemented element"
    /\ branch' = "raise"
    /\ ListenerUnchanged
    /\ UNCHANGED <<xml, pos, encoding, ret, events, inComment, node, value>>

\* Plist.parse_xml: parser.parse returned, return listener.result.
Return ==
    /\ status = "scanning"
    /\ pos = Len(xml)
    /\ status' = "returned"
    /\ ret' = result
    /\ ListenerUnchanged
    /\ UNCHANGED <<xml, pos, encoding, error, events, branch, inComment, node, value>>

-----------------------------------------------------------------------------
(* Documents: up to MaxChunks of these pieces, concatenated. *)

ChunkDict == <<"<","d","i","c","t",">">>
ChunkDictEnd == <<"<","/","d","i","c","t",">">>
ChunkArrayEnd == <<"<","/","a","r","r","a","y",">">>
ChunkTrueLine == <<"<","t","r","u","e","/",">","\n">>
ChunkPlistEmpty == <<"<","p","l","i","s","t","/",">">>
ChunkA == <<"a">>
ChunkSpace == <<" ">>
ChunkCommentOpen == <<"<","!","-","-">>
ChunkCommentClose == <<"-","-",">">>
ChunkXmlAscii == <<"<","?","x","m","l"," ","e","n","c","o","d","i","n","g","=","\"","a","s","c","i","i","\"","?",">">>
ChunkXmlBogus == <<"<","?","x","m","l"," ","e","n","c","o","d","i","n","g","=","\"","x","\"","?",">">>
ChunkXmlSingle == <<"<","?","x","m","l"," ","e","n","c","o","d","i","n","g","=","'","x","'","?",">">>
ChunkDoctype == <<"<","!","D","O","C","T","Y","P","E"," ","p",">">>
ChunkFoo == <<"<","f","o","o",">">>
ChunkKeys == <<"<","k","e","y","s",">">>
ChunkDictUpper == <<"<","D","i","c","t",">">>
ChunkDictAttr == <<"<","d","i","c","t"," ","a","=","\"","/","\n","\"",">">>

Chunks == {ChunkDict,
           ChunkDictEnd,
           ChunkArrayEnd,
           ChunkTrueLine,
           ChunkPlistEmpty,
           ChunkA,
           ChunkSpace,
           ChunkCommentOpen,
           ChunkCommentClose,
           ChunkXmlAscii,
           ChunkXmlBogus,
           ChunkXmlSingle,
           ChunkDoctype,
           ChunkFoo,
           ChunkKeys,
           ChunkDictUpper,
           ChunkDictAttr}

RECURSIVE Docs(_)
Docs(n) ==
    IF n = 0 THEN {<<>>}
    ELSE Docs(n - 1) \cup {d \o c : d \in Docs(n - 1), c \in Chunks}

\* Listener.new and StreamParser.new on a document.
Init ==
    /\ xml \in Docs(MaxChunks)
    /\ pos = 0
    /\ encoding = <<"u","t","f","-","8">>
    /\ open = <<>>
    /\ result = Nil
    /\ nextId = 1
    /\ status = "scanning"
    /\ error = ""
    /\ ret = Nil
    /\ events = <<>>
    /\ branch = ""
    /\ inComment = FALSE
    /\ conversions = 0
    /\ assignments = 0
    /\ node = NewTag(0, PLIST)
    /\ value = Nil

Next ==
    \/ ScanComment
    \/ ScanXmlDecl
    \/ ScanDoctype
    \/ ScanStartTag
    \/ ScanText
    \/ ScanEndTag
    \/ ScanRaise
    \/ Return

Spec == Init /\ [][Next]_vars

-----------------------------------------------------------------------------
(* Conversion alone: to_ruby applied to a node the listener can have built. *)

Leaf(name, hasText, text) ==
    [id |-> 0, tag |-> name, hasText |-> hasText, text |-> text, children |-> <<>>]

\* Childless nodes, as the listener builds them from <key>a</key>, <true/>, ...
Leaves ==
    { Leaf(KEY, TRUE, <<"a">>),
      Leaf(KEY, TRUE, <<"b">>),
      Leaf(STRING_, TRUE, <<"&","l","t",";">>),
      Leaf(INTEGER, TRUE, <<"7">>),
      Leaf(TRUE_, FALSE, <<>>),
      Leaf(PLIST, FALSE, <<>>),
      Leaf(DATA, TRUE, <<"a","a">>),
      Leaf(DATE, TRUE, <<"a">>) }

RECURSIVE LeafSeqs(_)
\* The sequences of at most n leaves.
LeafSeqs(n) ==
    IF n = 0 THEN {<<>>}
    ELSE LeafSeqs(n - 1)
            \cup {Append(q, c) : q \in {r \in LeafSeqs(n - 1) : Len(r) = n - 1},
                                 c \in Leaves}

\* A node of class name with the given children: objects are numbered in the
\* order tag_start constructs them, the parent first.
Parent(name, kids) ==
    [id |-> 1, tag |-> name, hasText |-> FALSE, text |-> <<>>,
     children |-> [i \in 1..Len(kids) |-> [kids[i] EXCEPT !.id = i + 1]]]

\* Data nodes, as the listener builds them from <data/>, <data>aa</data>, ...:
\* without text, with text that decodes to bytes Marshal.load rejects, and
\* with the text of a marshalled true.
DataLeaves ==
    { Leaf(DATA, FALSE, <<>>),
      Leaf(DATA, TRUE, <<"a","a">>),
      Leaf(DATA, TRUE, <<"a"," ","a","\n">>),
      Leaf(DATA, TRUE, <<"B","A","h","b">>),
      Leaf(DATA, TRUE, <<"B","A","h","U">>) }

ConvNodes ==
    {Parent(name, kids) : name \in {DICT, ARRAY, PLIST}, kids \in LeafSeqs(MaxChildren)}
        \cup {[d EXCEPT !.id = 1] : d \in DataLeaves}

ConvInit ==
    /\ node \in ConvNodes
    /\ value = Nil
    /\ status = "converting"
    /\ xml = <<>>
    /\ pos = 0
    /\ encoding = <<"u","t","f","-","8">>
    /\ open = <<>>
    /\ result = Nil
    /\ nextId = 1
    /\ error = ""
    /\ ret = Nil
    /\ events = <<>>
    /\ branch = ""
    /\ inComment = FALSE
    /\ conversions = 0
    /\ assignments = 0

\* node.to_ruby
Convert ==
    /\ status = "converting"
    /\ value' = ToRuby(node)
    /\ status' = "converted"
    /\ UNCHANGED <<xml, pos, encoding, open, result, nextId, error, ret, events,
                   branch, inComment, conversions, assignments, node>>

ConvNext == Convert

ConvSpec == ConvInit /\ [][ConvNext]_vars

-----------------------------------------------------------------------------
(* Properties *)

\* The scanner made a listener call in this step.
Emitted == Len(events') > Len(events)

\* The first listener call of this step.
FirstEmitted == events'[Len(events) + 1]

\* C1: when the input is exhausted with nodes still open, parse_xml does not
\* return normally.
C1_UnterminatedFails == ~(status = "returned" /\ Len(open) > 0)

\* C2: a text delivered to a node that already has text is appended to it:
\* the node's text becomes what it was followed by the contents delivered.
C2_TextConcatenates ==
    [][(/\ Emitted
        /\ FirstEmitted.ev = "text"
        /\ Len(open) > 0
        /\ open[Len(open)].hasText)
          => open'[Len(open)].text = open[Len(open)].text \o FirstEmitted.arg]_vars

\* C3: in one run the root conversion is invoked at most once and the result
\* is assigned at most once.
C3_SingleResult == conversions <= 1 /\ assignments <= 1

\* The XML name of the tag that starts at s[p + 1] with "<" or "</".
ElementNameAt(s, p) ==
    LET a == IF LitAt(s, p, <<"<","/">>) THEN p + 2 ELSE p + 1
        stop == FirstIn(s, a + 1, Spaces \cup {"/", ">"})
    IN  SubSeq(s, a + 1, IF stop = 0 THEN Len(s) ELSE stop - 1)

\* The cursor is at a start or end tag whose name is none of the eleven
\* registered names, whatever its letter case.
UnknownTagAtCursor ==
    /\ Scanning
    /\ LitAt(xml, pos, <<"<">>)
    /\ ElementNameAt(xml, pos) # <<>>
    /\ \E i \in 1..Len(LowerCase) : LowerCase[i] = Lower(ElementNameAt(xml, pos)[1])
    /\ ~IsMapped(LowerSeq(ElementNameAt(xml, pos)))

\* C4: a tag with an unregistered name fails the parse: the step at such a tag
\* raises, pushes no node and emits no event.
C4_UnknownTagFails ==
    [][UnknownTagAtCursor
         => status' = "raised" /\ open' = open /\ events' = events]_vars

\* C5: every tag_start the scanner emits (its name is a registered name up to
\* letter case) constructs and pushes a node of the variant of the lowercase
\* name.
C5_CaseInsensitiveStart ==
    [][(Emitted /\ FirstEmitted.ev = "tag_start")
         => /\ nextId' = nextId + 1
            /\ \E d \in 0..1 :
                  /\ Len(open') = Len(open) + d
                  /\ d = 1 => open'[Len(open')].tag = LowerSeq(FirstEmitted.arg)]_vars

\* None of the six patterns matches at cursor p.
NoPatternMatches(s, p) ==
    /\ CommentStartEnd(s, p) = NoMatch
    /\ XmlDeclEnd(s, p) = NoMatch
    /\ DoctypeEnd(s, p) = NoMatch
    /\ StartTagEnd(s, p) = NoMatch
    /\ TextEnd(s, p) = NoMatch
    /\ EndTagEnd(s, p) = NoMatch

\* C6: where no pattern matches the parse raises at once, leaving cursor,
\* events, stack and result as they are; after a raise nothing happens any
\* more, so no event follows and parse_xml returns nothing.
C6_MalformedAborts ==
    [][/\ status # "raised"
       /\ (Scanning /\ NoPatternMatches(xml, pos))
            => /\ status' = "raised"
               /\ error' = "Unimplemented element"
               /\ pos' = pos
               /\ events' = events
               /\ open' = open
               /\ result' = result
               /\ ret' = ret]_vars

\* A malformed position was hit inside an open element: the parse raised and
\* the nodes built so far are not returned.
C6_Witness ==
    /\ status = "raised"
    /\ error = "Unimplemented element"
    /\ Len(events) > 0
    /\ Len(open) > 0
    /\ NoPatternMatches(xml, pos)

\* C7: converting a dict with an odd number of children fails.
C7_OddDictFails ==
    (status = "converted" /\ node.tag = DICT /\ Len(node.children) % 2 = 1)
        => IsRaised(value)

\* Converted value of the key child and of the value child of the i-th pair
\* of the node under conversion.
KeyOf(i) == ToRuby(node.children[2 * i - 1])
ValOf(i) == ToRuby(node.children[2 * i])

\* Every child of the node under conversion converts without raising.
ChildrenConvert ==
    \A i \in 1..Len(node.children) : ~IsRaised(ToRuby(node.children[i]))

\* v is the mapping of the first n pairs of children: it holds exactly their
\* keys, each once and bound to the value of the last pair with that key, in
\* the order in which the keys first occur.
IsPairing(v, n) ==
    /\ v.t = "hash"
    /\ \A i \in 1..n : \E j \in 1..Len(v.items) : v.items[j].items[1] = KeyOf(i)
    /\ \A j \in 1..Len(v.items) :
          \E i \in 1..n :
              /\ v.items[j] = Pair(KeyOf(i), ValOf(i))
              /\ \A i2 \in (i + 1)..n : KeyOf(i2) # KeyOf(i)
    /\ \A j1, j2 \in 1..Len(v.items) :
          j1 < j2 =>
              /\ v.items[j1].items[1] # v.items[j2].items[1]
              /\ \E i1 \in 1..n :
                    /\ KeyOf(i1) = v.items[j1].items[1]
                    /\ \A i2 \in 1..i1 : KeyOf(i2) # v.items[j2].items[1]

\* A dict with an even number of children, all of which convert, was
\* converted.
EvenDictConverted ==
    /\ status = "converted"
    /\ node.tag = DICT
    /\ Len(node.children) % 2 = 0
    /\ ChildrenConvert

\* C8 as stated: every dict with an even number of children converts to the
\* mapping of its children taken as alternating (key, value) pairs.
C8_DictPairs ==
    EvenDictConverted => IsPairing(value, Len(node.children) \div 2)

\* C8: a dict with an even number of children, none of whose odd-position
\* children converts to nil, converts to the mapping of its children taken as
\* alternating (key, value) pairs: keys in first-encounter order, a repeated
\* key bound to the value of its last pair, and no other keys.
C8_DictPairsNonNilKeys ==
    (/\ EvenDictConverted
     /\ \A i \in 1..(Len(node.children) \div 2) : ~IsNil(KeyOf(i)))
        => IsPairing(value, Len(node.children) \div 2)

\* A dict of two pairs with the same key and different values was converted
\* to the one entry binding the key to the second value.
C8_Witness ==
    /\ EvenDictConverted
    /\ Len(node.children) = 4
    /\ ~IsNil(KeyOf(1))
    /\ KeyOf(1) = KeyOf(2)
    /\ ValOf(1) # ValOf(2)
    /\ value = Hash(<<Pair(KeyOf(1), ValOf(2))>>)

\* The branches in the order of the chain.
BranchOrder == <<"comment", "xmldecl", "doctype", "start_tag", "text", "end_tag">>

\* The pattern of the k-th branch matches at cursor p.
PatternMatches(k, s, p) ==
    CASE k = 1 -> CommentStartEnd(s, p) # NoMatch
      [] k = 2 -> XmlDeclEnd(s, p) # NoMatch
      [] k = 3 -> DoctypeEnd(s, p) # NoMatch
      [] k = 4 -> StartTagEnd(s, p) # NoMatch
      [] k = 5 -> TextEnd(s, p) # NoMatch
      [] k = 6 -> EndTagEnd(s, p) # NoMatch

\* C9: each iteration takes the one branch whose pattern matches while none
\* before it in the order comment, XML declaration, doctype, start tag, text,
\* end tag does, consumes what that pattern matched, and emits events only in
\* the start tag, text and end tag branches.
C9_OrderedBranches ==
    [][Scanning =>
        /\ \/ \E k \in 1..Len(BranchOrder) :
                 /\ branch' = BranchOrder[k]
                 /\ PatternMatches(k, xml, pos)
                 /\ \A j \in 1..(k - 1) : ~PatternMatches(j, xml, pos)
           \/ /\ branch' = "raise"
              /\ \A j \in 1..Len(BranchOrder) : ~PatternMatches(j, xml, pos)
        /\ branch' \in {"comment", "xmldecl", "doctype", "raise"} => events' = events
        /\ branch' = "doctype" => pos' = DoctypeEnd(xml, pos)
        /\ branch' = "start_tag" =>
              /\ pos' = StartTagEnd(xml, pos)
              /\ Len(events') \in {Len(events) + 1, Len(events) + 2}
              /\ SubSeq(events', 1, Len(events)) = events
              /\ FirstEmitted.ev = "tag_start"
              /\ Len(events') = Len(events) + 2 => events'[Len(events')].ev = "tag_end"
        /\ branch' = "text" =>
              /\ pos' = TextEnd(xml, pos)
              /\ events' = Append(events, Event("text", SubSeq(xml, pos + 1, pos')))
        /\ branch' = "end_tag" =>
              /\ pos' = EndTagEnd(xml, pos)
              /\ events' = Append(events, Event("tag_end", EndTagName(xml, pos)))]_vars

\* At the start of the text both the doctype and the text pattern matched;
\* the doctype branch was taken and no text was delivered.
C9_Witness ==
    /\ branch = "doctype"
    /\ TextEnd(xml, 0) # NoMatch
    /\ DoctypeEnd(xml, 0) # NoMatch
    /\ pos = DoctypeEnd(xml, 0)
    /\ events = <<>>

\* C10: from a consumed comment open until a comment close is consumed, no
\* step emits an event or changes the stack or the result; and a comment
\* whose close follows is skipped through the first following -->.
C10_CommentSilent ==
    [][/\ inComment => events' = events /\ open' = open /\ result' = result
       /\ (Scanning /\ CommentStartEnd(xml, pos) # NoMatch
                    /\ CommentEndEnd(xml, pos + 4) # NoMatch)
            => pos' = CommentEndEnd(xml, pos + 4)]_vars

\* The step took the start tag branch at a tag whose name is a registry key.
RegisteredStartStep ==
    /\ Scanning
    /\ branch' = "start_tag"
    /\ IsMapped(StartTagName(xml, pos))

\* The node a start tag step constructs.
StartedNode == NewTag(nextId, StartTagName(xml, pos))

\* What a start tag step does when it emits tag_start(name) alone (closes is
\* FALSE: the node stays on the stack) and when it emits tag_start(name) and
\* right after it tag_end(name) (closes is TRUE: the stack is as deep as
\* before, and the new node, without text or children, is the last child of
\* the top or, on an empty stack, converted into the result).
StartTagStepIs(closes) ==
    LET name == StartTagName(xml, pos)
    IN  /\ nextId' = nextId + 1
        /\ ~closes =>
              /\ events' = Append(events, Event("tag_start", name))
              /\ open' = Append(open, StartedNode)
              /\ result' = result
        /\ closes =>
              /\ events' = events \o <<Event("tag_start", name), Event("tag_end", name)>>
              /\ Len(open') = Len(open)
              /\ Len(open) > 0 =>
                    /\ open' = [open EXCEPT ![Len(open)].children = Append(@, StartedNode)]
                    /\ result' = result
              /\ (Len(open) = 0 /\ ~IsRaised(ToRuby(StartedNode))) =>
                    result' = ToRuby(StartedNode)

\* The attribute part s ends with "/".
EndsWithSlash(s) == Len(s) > 0 /\ s[Len(s)] = "/"

\* C11: a start tag of a registered name emits tag_start(name), and tag_end(name)
\* right after it if and only if its attribute part ends with "/"; after a
\* self-closing tag the stack is as deep as before and the node it created has
\* no text and no children.
C11_SelfClosingIffSlash ==
    [][RegisteredStartStep
         => StartTagStepIs(EndsWithSlash(StartTagAttrs(xml, pos)))]_vars

\* An array all of whose children convert was converted.
ArrayConverted ==
    /\ status = "converted"
    /\ node.tag = ARRAY
    /\ ChildrenConvert

\* C12: an array node with children c1..cn converts to a sequence of length n
\* whose i-th element is the converted value of ci.
C12_ArrayKeepsOrder ==
    ArrayConverted =>
        /\ value.t = "array"
        /\ Len(value.items) = Len(node.children)
        /\ \A i \in 1..Len(node.children) : value.items[i] = ToRuby(node.children[i])

\* An array of several children with different values was converted, each
\* value at the place of its child.
C12_Witness ==
    /\ ArrayConverted
    /\ Len(node.children) >= 3
    /\ ToRuby(node.children[1]) # ToRuby(node.children[2])
    /\ ToRuby(node.children[2]) # ToRuby(node.children[3])
    /\ value.items[1] = ToRuby(node.children[1])
    /\ value.items[Len(node.children)] = ToRuby(node.children[Len(node.children)])

\* C13: a plist node with a single child converts to what that child converts
\* to, and a plist node with no children converts to nil without raising.
C13_PlistUnwraps ==
    (status = "converted" /\ node.tag = PLIST) =>
        /\ Len(node.children) = 1 => value = ToRuby(node.children[1])
        /\ Len(node.children) = 0 => value = Nil

\* A plist with one child, a string, was converted to the unescaped string.
C13_Witness ==
    /\ status = "converted"
    /\ node.tag = PLIST
    /\ Len(node.children) = 1
    /\ node.children[1].tag = STRING_
    /\ value = Str(<<"<">>)

\* The encoding name an XML declaration with body decl declares, in either
\* kind of quotes; <<>> when it declares none.
DeclaredEncoding(decl) ==
    IF EncodingMatches(decl) = {} THEN <<>>
    ELSE LET j == Least(EncodingMatches(decl))
         IN  SubSeq(decl, j + 11, ClosingQuote(decl, j + 10) - 1)

\* The cursor is at an XML declaration that declares no encoding or one the
\* platform does not know.
UnusableDeclAtCursor ==
    /\ Scanning
    /\ CommentStartEnd(xml, pos) = NoMatch
    /\ XmlDeclEnd(xml, pos) # NoMatch
    /\ LowerSeq(DeclaredEncoding(XmlDeclGroup(xml, pos))) \notin KnownEncodings

LoadFails(nd) == ~nd.hasText \/ IsRaised(MarshalLoad(Decode64(nd.text)))

\* C15: converting a data node never raises; when Marshal.load fails on the
\* decoded bytes, or the node has no text, to_ruby returns a buffer that holds
\* the decoded bytes (none without text) and is positioned at its start.
C15_DataFallsBack ==
    (status = "converted" /\ node.tag = DATA) =>
        /\ ~IsRaised(value)
        /\ LoadFails(node) =>
              /\ value.t = "stringio"
              /\ value.bytes = (IF node.hasText THEN Decode64(node.text) ELSE <<>>)
              /\ value.items = <<0>>

\* A data node whose text decodes to one byte, which is no marshalled object,
\* was converted to a buffer holding that byte.
C15_Witness ==
    /\ status = "converted"
    /\ node.tag = DATA
    /\ node.hasText
    /\ LoadFails(node)
    /\ value.t = "stringio"
    /\ value.bytes = <<105>>
    /\ value.items = <<0>>

\* The step took the end tag branch with a node on the stack.
EndTagStepOnOpen ==
    /\ Scanning
    /\ branch' = "end_tag"
    /\ Len(open) > 0

\* The stack without its top.
Popped == SubSeq(open, 1, Len(open) - 1)

\* C16: tag_end(name) on a non-empty stack pops the top node whatever name
\* is: when the stack is then empty the result is the converted node (unless
\* converting it raises), otherwise the node becomes the last child of the
\* new top and the result stays; a name that is not the node's raises nothing.
C16_TagEndIgnoresName ==
    [][EndTagStepOnOpen =>
        LET last == open[Len(open)]
        IN  /\ Len(Popped) = 0 =>
                  /\ open' = <<>>
                  /\ ~IsRaised(ToRuby(last)) =>
                        /\ result' = ToRuby(last)
                        /\ status' = "scanning"
                        /\ error' = ""
            /\ Len(Popped) > 0 =>
                  /\ open' = [Popped EXCEPT ![Len(Popped)].children = Append(@, last)]
                  /\ result' = result
                  /\ status' = "scanning"
                  /\ error' = ""]_vars

\* <dict> was closed by </array>: the dict was popped and converted, nothing
\* was raised.
C16_Witness ==
    /\ events = <<Event("tag_start", DICT), Event("tag_end", ARRAY)>>
    /\ open = <<>>
    /\ result = Hash(<<>>)
    /\ assignments = 1
    /\ error = ""

RECURSIVE NodeIds(_)
RECURSIVE NodeIdsOfAll(_)

\* The identities of nd and of the nodes below it, one entry per occurrence.
NodeIds(nd) == <<nd.id>> \o NodeIdsOfAll(nd.children)

\* The same for every node of a sequence of nodes.
NodeIdsOfAll(nds) ==
    IF Len(nds) = 0 THEN <<>>
    ELSE NodeIds(nds[1]) \o NodeIdsOfAll(Tail(nds))

\* Every node occurs once: on the stack or in one children list, never in
\* both and never below itself.
Forest ==
    LET ids == NodeIdsOfAll(open)
    IN  /\ \A i, j \in 1..Len(ids) : ids[i] = ids[j] => i = j
        /\ \A i \in 1..Len(ids) : ids[i] \in 1..(nextId - 1)

\* The children of the nodes that stay on the stack change in one way only:
\* a step whose last call is tag_end appends, to the node that is then the
\* top, the node that was directly above it (or, for a self-closing tag, the
\* node the step constructed above it).
ChildrenGrowByTagEnd ==
    \A k \in 1..Len(open') :
        k <= Len(open) =>
            /\ open'[k].id = open[k].id
            /\ \/ open'[k].children = open[k].children
               \/ /\ k = Len(open')
                  /\ Emitted
                  /\ events'[Len(events')].ev = "tag_end"
                  /\ \/ /\ Len(open) = k + 1
                        /\ open'[k].children = Append(open[k].children, open[k + 1])
                     \/ /\ Len(open) = k
                        /\ Len(events') = Len(events) + 2
                        /\ open'[k].children
                              = Append(open[k].children,
                                       NewTag(nextId, FirstEmitted.arg))

\* C17: the nodes of a parse form a forest in every state, and a node gets a
\* child only by a tag_end executed while it is directly below that child on
\* the stack.
C17_NodesFormForest == []Forest /\ [][ChildrenGrowByTagEnd]_vars

\* Two nodes are open, the upper one has a child, and the three are different
\* nodes.
C17_Witness ==
    /\ Len(open) = 2
    /\ Len(open[2].children) = 1
    /\ NodeIdsOfAll(open) = <<1, 2, 3>>

\* parse_xml has returned or raised.
Done == status \in {"returned", "raised"}

\* Number of characters the scanner has not consumed yet.
Unscanned == Len(xml) - pos

\* C18: the loop terminates, by returning or by raising: the cursor never
\* passes the end of the text, every iteration that does not raise leaves
\* fewer unscanned characters, a reinterpretation replaces the scanned string
\* by exactly its unscanned rest (so nothing that was consumed is scanned
\* again), and nothing happens after the call has returned or raised.
C18_LoopTerminates ==
    /\ [](Unscanned >= 0)
    /\ [][(Scanning /\ status' = "scanning") =>
             /\ Unscanned' < Unscanned
             /\ \/ xml' = xml /\ pos' > pos
                \/ /\ branch' = "xmldecl"
                   /\ pos' = 0
                   /\ xml' = Rest(xml, XmlDeclEnd(xml, pos))]_vars
    /\ [][Done => UNCHANGED vars]_vars

\* A parse that reinterpreted its text ended by returning, all of its text
\* consumed.
C18_Witness ==
    /\ status = "returned"
    /\ encoding = <<"a","s","c","i","i">>
    /\ Len(events) >= 2
    /\ pos = Len(xml)
    /\ Len(xml) > 0

\* C19: text delivered while no node is open is discarded: the step leaves
\* the stack, the result and the count of constructed nodes as they are and
\* raises nothing.
C19_TextOutsideDiscarded ==
    [][(Scanning /\ branch' = "text" /\ Len(open) = 0)
         => /\ events' = Append(events, Event("text", SubSeq(xml, pos + 1, pos')))
            /\ open' = open
            /\ result' = result
            /\ nextId' = nextId
            /\ assignments' = assignments
            /\ status' = "scanning"
            /\ error' = ""]_vars

\* Text came after the root element had closed: the result stored before is
\* still there and nothing was raised.
C19_Witness ==
    /\ branch = "text"
    /\ Len(events) >= 3
    /\ events[Len(events)].ev = "text"
    /\ events[Len(events) - 1].ev = "tag_end"
    /\ open = <<>>
    /\ assignments = 1
    /\ result = Bool(TRUE)
    /\ status = "scanning"

\* C20: an end tag scanned while no node is open aborts the parse with an
\* error: the step stores no result, leaves a result stored before as it is
\* and changes no node.
C20_StrayEndTagAborts ==
    [][(Scanning /\ branch' = "end_tag" /\ Len(open) = 0)
         => /\ events' = Append(events, Event("tag_end", EndTagName(xml, pos)))
            /\ status' = "raised"
            /\ error' # ""
            /\ open' = open
            /\ result' = result
            /\ assignments' = assignments
            /\ conversions' = conversions]_vars

\* An end tag came after the root element had closed: the parse raised and
\* the result stored before is still there.
C20_Witness ==
    /\ status = "raised"
    /\ error = "NoMethodError"
    /\ branch = "end_tag"
    /\ events[Len(events)].ev = "tag_end"
    /\ open = <<>>
    /\ assignments = 1
    /\ result = Hash(<<>>)

====
